---------------------------- MODULE Spec2Model ----------------------------
(***************************************************************************)
(* Model of the TBTN A1/A2 button ACPI driver (src/tbtn_driver.c).         *)
(*                                                                         *)
(* The driver is a set of callbacks the ACPI bus calls: tbtn_init and      *)
(* tbtn_exit on module load and unload, tbtn_add and tbtn_remove on bind   *)
(* and unbind of a matching device, tbtn_notify_handler on a firmware      *)
(* notification.  Each callback is one action.  What the callbacks call in *)
(* the kernel (devm allocation, the sparse keymap, the input core, the     *)
(* HINF firmware method) is the environment: an allocation or a firmware   *)
(* query may fail, and the action draws that outcome with \E.              *)
(*                                                                         *)
(* A definition named X_<fault> right before X is X with that fault: the   *)
(* properties below are sensitive to it.                                   *)
(*                                                                         *)
(* Input events are modelled at the level of the reports made on the       *)
(* virtual input device (input_report_key and input_sync); the EV_MSC scan *)
(* code echo of the sparse keymap is not part of the model.                *)
(***************************************************************************)
EXTENDS Integers, Sequences, FiniteSets, TLC

VARIABLES
    module,   \* "unloaded" or "loaded": the ACPI driver is registered
    dev,      \* per ACPI device: driver binding, context, virtual input device
    hist,     \* per device: notifications seen since the last bind
    obs,      \* what the last callback did: its inputs, steps, reports, result
    prev      \* the HINF value and reports of the successful query before obs

vars == <<module, dev, hist, obs, prev>>

-----------------------------------------------------------------------------
(* Bounds of the model *)

\* raw status values carry bits 8..63 drawn from 0..MaxUpper
MaxUpper == 1

\* key values (low 7 bits) within this distance of a decoded value are drawn
KeyRadius == 2

-----------------------------------------------------------------------------
(* Program constants *)

ENOMEM == 12

TBTN_NOTIFY == 128

\* the two hardware ids of tbtn_device_ids
Devices == {"MAT002A", "MAT002B"}

tbtn_keymap_shifted ==
    << [type |-> "KE_KEY", code |-> 56, keycode |-> "KEY_PROG1"],
       [type |-> "KE_KEY", code |-> 67, keycode |-> "KEY_PROG2"],
       [type |-> "KE_END", code |-> 0, keycode |-> "NONE"] >>

tbtn_keymap ==
    << [type |-> "KE_KEY", code |-> 57, keycode |-> "KEY_PROG1"],
       [type |-> "KE_KEY", code |-> 67, keycode |-> "KEY_PROG2"],
       [type |-> "KE_END", code |-> 0, keycode |-> "NONE"] >>

-----------------------------------------------------------------------------
(* Inputs *)

DecodedValues == {56, 57, 66, 67}

KeyValues ==
    {0, 1, 63, 64, 127} \cup
    {k \in 0..127 : \E c \in DecodedValues : k - c \in (0 - KeyRadius)..KeyRadius}

\* A 64-bit HINF result: lo is bits 0..7, hi is bits 8..63.
RawValues ==
    [hi : 0..MaxUpper, lo : KeyValues \cup {k + 128 : k \in KeyValues}]

\* notification codes the firmware may raise (u32)
NotifyCodes == {0, 127, 128, 129, 255}

\* error codes sparse_keymap_setup and input_register_device may return
ErrorCodes == {0 - ENOMEM, 0 - 22}

NoRaw == [hi |-> 0 - 1, lo |-> 0 - 1]

-----------------------------------------------------------------------------
(* Device state *)

NoInput ==
    [alloc |-> FALSE, keymap |-> <<>>, keybit |-> {}, registered |-> FALSE,
     keys |-> {}]

NoContext == [alloc |-> FALSE, handle |-> "NULL", input_dev |-> "NULL"]

\* a device no driver is bound to
Unbound ==
    [attached |-> FALSE, driver_data |-> "NULL", tbtn |-> NoContext,
     input |-> NoInput, devres |-> {}]

NoObs ==
    [op |-> "none", d |-> "none", event |-> 0 - 1, hinf |-> "none",
     raw |-> NoRaw, trace |-> <<>>, emitted |-> <<>>, outcome |-> "none",
     ret |-> 0, fail |-> "none", regAtReturn |-> FALSE]

NoPrev == [raw |-> NoRaw, emitted |-> <<>>, outcome |-> "none"]

-----------------------------------------------------------------------------
(* The kernel services the driver calls *)

KeyEvent(keycode, value) == [ev |-> "KEY", key |-> keycode, value |-> value]

SynEvent == [ev |-> "SYN", key |-> "NONE", value |-> 0]

\* the first entry of keymap before KE_END whose code is `code`, as a
\* sequence of zero or one entries
RECURSIVE EntryFrom(_, _, _)
EntryFrom(keymap, i, code) ==
    IF i > Len(keymap) \/ keymap[i].type = "KE_END" THEN <<>>
    ELSE IF keymap[i].code = code THEN <<keymap[i]>>
    ELSE EntryFrom(keymap, i + 1, code)

sparse_keymap_entry_from_scancode(input, code) == EntryFrom(input.keymap, 1, code)

\* sparse_keymap_setup(input_dev, tbtn_keymap, NULL): the device gets a copy
\* of the map and the capability bit of every KE_KEY entry
sparse_keymap_setup(input, keymap) ==
    [input EXCEPT
        !.keymap = keymap,
        !.keybit = {keymap[i].keycode :
                       i \in {j \in 1..Len(keymap) : keymap[j].type = "KE_KEY"}}]

\* input_report_key: the device's key state follows keys it is capable of
input_report_key(input, keycode, value) ==
    IF keycode \notin input.keybit THEN input
    ELSE IF value # 0 THEN [input EXCEPT !.keys = @ \cup {keycode}]
    ELSE [input EXCEPT !.keys = @ \ {keycode}]

\* sparse_keymap_report_entry for a KE_KEY entry: the key report and a sync,
\* and with autorelease a press is followed at once by its release and a sync
sparse_keymap_report_entry(input, ke, value, autorelease) ==
    LET first == input_report_key(input, ke.keycode, value)
    IN  IF value # 0 /\ autorelease
        THEN [input |-> input_report_key(first, ke.keycode, 0),
              events |-> << KeyEvent(ke.keycode, value), SynEvent,
                            KeyEvent(ke.keycode, 0), SynEvent >>]
        ELSE [input |-> first,
              events |-> << KeyEvent(ke.keycode, value), SynEvent >>]

\* sparse_keymap_report_event: a code without an entry is reported as
\* KEY_UNKNOWN (autoreleased) and the call returns false
sparse_keymap_report_event(input, code, value, autorelease) ==
    LET found == sparse_keymap_entry_from_scancode(input, code)
        unknown_ke == [type |-> "KE_KEY", code |-> code, keycode |-> "KEY_UNKNOWN"]
    IN  IF found # <<>>
        THEN [ok |-> TRUE] @@ sparse_keymap_report_entry(input, found[1], value, autorelease)
        ELSE [ok |-> FALSE] @@ sparse_keymap_report_entry(input, unknown_ke, value, TRUE)

\* driver core: every device-managed resource of the device is released
DevresReleaseAll(s) ==
    [s EXCEPT
        !.tbtn = IF "tbtn" \in s.devres THEN NoContext ELSE @,
        !.input = IF "input_dev" \in s.devres THEN NoInput ELSE @,
        !.devres = {}]

-----------------------------------------------------------------------------
(* tbtn_notify_handler *)

IsTbtnEvent_range(event) == event >= TBTN_NOTIFY

\* case 0x80 of the switch on event
IsTbtnEvent(event) == event = TBTN_NOTIFY

ExtractKeyValue_byte(hinf_result) == hinf_result.lo % 256

\* key_value = (unsigned int)(hinf_result & 0x7F)
ExtractKeyValue(hinf_result) == hinf_result.lo % 128

\* key_event_type = (unsigned int)(hinf_result & 0x80)
ExtractKeyEventType(hinf_result) == ((hinf_result.lo \div 128) % 2) * 128

Decoded(report_key_value, event_type_to_report) ==
    [handled |-> TRUE, report_key_value |-> report_key_value,
     event_type_to_report |-> event_type_to_report]

Undecoded == [handled |-> FALSE, report_key_value |-> 0, event_type_to_report |-> 0 - 1]

DecodeKeyValue_release_own_code(key_value, key_event_type) ==
    CASE key_value = 57 -> Decoded(57, 1)
      [] key_value = 56 -> Decoded(56, 0)
      [] key_value = 67 -> Decoded(67, 1)
      [] key_value = 66 -> Decoded(66, 0)
      [] OTHER -> Undecoded

DecodeKeyValue_extra_case(key_value, key_event_type) ==
    CASE key_value = 57 -> Decoded(57, 1)
      [] key_value = 56 -> Decoded(57, 0)
      [] key_value = 67 -> Decoded(67, 1)
      [] key_value = 66 -> Decoded(67, 0)
      [] key_value = 58 -> Decoded(57, 1)
      [] OTHER -> Undecoded

\* the switch on key_value: report_key_value and event_type_to_report, or
\* the default case's return; key_event_type is computed and not read
DecodeKeyValue(key_value, key_event_type) ==
    CASE key_value = 57 -> Decoded(57, 1)
      [] key_value = 56 -> Decoded(57, 0)
      [] key_value = 67 -> Decoded(67, 1)
      [] key_value = 66 -> Decoded(67, 0)
      [] OTHER -> Undecoded

Handled(s, trace, emitted, outcome) ==
    [s |-> s, trace |-> trace, emitted |-> emitted, outcome |-> outcome]

\* after a successful query: extract, decode, and report what was decoded
\* with sparse_keymap_report_event(tbtn->input_dev, code, value, true)
DecodeAndReport(s, hinf_result) ==
    LET key_value == ExtractKeyValue(hinf_result)
        key_event_type == ExtractKeyEventType(hinf_result)
        dec == DecodeKeyValue(key_value, key_event_type)
    IN  IF ~dec.handled
        THEN Handled(s, <<"HINF", "decode">>, <<>>, "unrecognized")
        ELSE IF dec.event_type_to_report # 0 - 1
        THEN LET rep == sparse_keymap_report_event(s.input, dec.report_key_value,
                            dec.event_type_to_report, TRUE)
             IN  Handled([s EXCEPT !.input = rep.input],
                         <<"HINF", "decode", "report">>, rep.events,
                         IF rep.ok THEN "reported" ELSE "report_failed")
        ELSE Handled(s, <<"HINF", "decode">>, <<>>, "undetermined")

HinfFailure_drops_input(s, hinf_result) ==
    Handled([s EXCEPT !.tbtn.input_dev = "NULL"], <<"HINF">>, <<>>, "hinf_failed")

HinfFailure_falls_through(s, hinf_result) == DecodeAndReport(s, hinf_result)

\* the ACPI_FAILURE branch: log and return, hinf_result is not read
HinfFailure(s, hinf_result) == Handled(s, <<"HINF">>, <<>>, "hinf_failed")

\* The handler on device state s for notification `event`, where the HINF
\* query, if made, ends with `status` and leaves hinf_result (whatever the
\* variable holds when the query fails).
tbtn_notify_handler(s, event, status, hinf_result) ==
    IF s.driver_data = "NULL" \/ s.tbtn.input_dev = "NULL"
    THEN Handled(s, <<>>, <<>>, "uninitialized")
    ELSE IF IsTbtnEvent(event)
    THEN IF status # "AE_OK"
         THEN HinfFailure(s, hinf_result)
         ELSE DecodeAndReport(s, hinf_result)
    ELSE Handled(s, <<>>, <<>>, "unknown_event")

-----------------------------------------------------------------------------
(* tbtn_add and tbtn_remove *)

\* tbtn = devm_kzalloc(...); tbtn->handle = device->handle;
\* device->driver_data = tbtn
AllocContext(s, d) ==
    [s EXCEPT
        !.tbtn = [alloc |-> TRUE, handle |-> d, input_dev |-> "NULL"],
        !.driver_data = "tbtn",
        !.devres = @ \cup {"tbtn"}]

\* the allocation without devm: nothing releases it on unbind
input_allocate_device(s) == [s EXCEPT !.input = [NoInput EXCEPT !.alloc = TRUE]]

\* input_dev = devm_input_allocate_device(&device->dev)
devm_input_allocate_device(s) ==
    [s EXCEPT
        !.input = [NoInput EXCEPT !.alloc = TRUE],
        !.devres = @ \cup {"input_dev"}]

\* input_register_device(tbtn->input_dev), when it succeeds
input_register_device(s) == [s EXCEPT !.input.registered = TRUE]

Returned(s, ret, trace) == [s |-> s, ret |-> ret, trace |-> trace]

tbtn_add_registers_early(s, d, fail, err) ==
    IF fail = "kzalloc" THEN Returned(s, 0 - ENOMEM, <<"kzalloc">>)
    ELSE LET s1 == AllocContext(s, d)
    IN  IF fail = "input_alloc"
        THEN Returned(s1, 0 - ENOMEM, <<"kzalloc", "input_alloc">>)
        ELSE LET s2 == [devm_input_allocate_device(s1) EXCEPT !.tbtn.input_dev = "input_dev"]
        IN  IF fail = "register"
            THEN Returned(s2, err, <<"kzalloc", "input_alloc", "register">>)
            ELSE LET s3 == input_register_device(s2)
            IN  IF fail = "keymap"
                THEN Returned(s3, err,
                         <<"kzalloc", "input_alloc", "register", "keymap_setup">>)
                ELSE Returned([s3 EXCEPT !.input = sparse_keymap_setup(@, tbtn_keymap)],
                         0, <<"kzalloc", "input_alloc", "register", "keymap_setup">>)

\* tbtn_add on device state s of device d.  `fail` names the kernel call
\* that fails (or "none") and err the code a failing sparse_keymap_setup or
\* input_register_device returns.  The trace lists the calls attempted.
tbtn_add(s, d, fail, err) ==
    IF fail = "kzalloc" THEN Returned(s, 0 - ENOMEM, <<"kzalloc">>)
    ELSE LET s1 == AllocContext(s, d)
    IN  IF fail = "input_alloc"
        THEN Returned(s1, 0 - ENOMEM, <<"kzalloc", "input_alloc">>)
        ELSE LET s2 == devm_input_allocate_device(s1)
        IN  IF fail = "keymap"
            THEN Returned(s2, err, <<"kzalloc", "input_alloc", "keymap_setup">>)
            ELSE LET s3 == [s2 EXCEPT
                               !.input = sparse_keymap_setup(@, tbtn_keymap),
                               !.tbtn.input_dev = "input_dev"]
            IN  IF fail = "register"
                THEN Returned(s3, err,
                         <<"kzalloc", "input_alloc", "keymap_setup", "register">>)
                ELSE Returned(input_register_device(s3), 0,
                         <<"kzalloc", "input_alloc", "keymap_setup", "register">>)

\* tbtn_remove: a log line only
tbtn_remove(s) == s

\* the ACPI bus after a failed add or after remove: the driver data pointer
\* is cleared and the device's managed resources are released
Detach(s) ==
    [DevresReleaseAll(s) EXCEPT !.attached = FALSE, !.driver_data = "NULL"]

-----------------------------------------------------------------------------
(* Actions *)

\* What the HINF method answers when it is queried: a failure status, which
\* leaves hinf_result unset (it then holds whatever the stack held), or
\* success with a raw value.
HinfAnswers ==
    [status : {"AE_ERROR"}, raw : {[hi |-> 0, lo |-> 57], [hi |-> 0, lo |-> 0]}]
    \cup [status : {"AE_OK"}, raw : RawValues]

\* the answers tried with the notification codes other than 0x80
HinfProbes ==
    {a \in HinfAnswers : a.raw \in {[hi |-> 0, lo |-> 57], [hi |-> 0, lo |-> 0]}}

Stimuli ==
    [event : {TBTN_NOTIFY}, hinf : HinfAnswers]
    \cup [event : NotifyCodes \ {TBTN_NOTIFY}, hinf : HinfProbes]

\* the stimuli of a 0x80 notification whose query succeeds
QueryStimuli == {st \in Stimuli : st.event = TBTN_NOTIFY /\ st.hinf.status = "AE_OK"}

IsQuery(o) == o.op = "notify" /\ o.hinf = "ok"

\* prev follows obs: the last successful HINF query before the new callback
Shift == prev' = IF IsQuery(obs)
                 THEN [raw |-> obs.raw, emitted |-> obs.emitted, outcome |-> obs.outcome]
                 ELSE prev

\* device d bound by a tbtn_add in which nothing failed
Bound(d) == [tbtn_add(Unbound, d, "none", 0).s EXCEPT !.attached = TRUE]

Init ==
    /\ module = "unloaded"
    /\ dev = [d \in Devices |-> Unbound]
    /\ hist = [d \in Devices |-> "none"]
    /\ obs = NoObs
    /\ prev = NoPrev

\* tbtn_init: acpi_bus_register_driver succeeds or returns a negative code
ModuleInit ==
    /\ module = "unloaded"
    /\ \E result \in {0} \cup ErrorCodes :
          /\ module' = IF result < 0 THEN "unloaded" ELSE "loaded"
          /\ obs' = [NoObs EXCEPT !.op = "init", !.ret = result]
    /\ UNCHANGED <<dev, hist, prev>>

\* the ACPI bus binds the driver to device d
Add(d) ==
    /\ module = "loaded"
    /\ ~dev[d].attached
    /\ \E fail \in {"none", "kzalloc", "input_alloc", "keymap", "register"},
          err \in ErrorCodes :
          LET r == tbtn_add(dev[d], d, fail, err)
          IN  /\ dev' = [dev EXCEPT ![d] = IF r.ret = 0
                                           THEN [r.s EXCEPT !.attached = TRUE]
                                           ELSE Detach(r.s)]
              /\ obs' = [NoObs EXCEPT !.op = "add", !.d = d, !.ret = r.ret,
                                      !.fail = fail, !.trace = r.trace,
                                      !.regAtReturn = r.s.input.registered]
    /\ hist' = [hist EXCEPT ![d] = "none"]
    /\ UNCHANGED <<module, prev>>

\* the firmware raises a notification on bound device d, drawn from S
Deliver(d, S) ==
    /\ dev[d].attached
    /\ \E st \in S :
          LET r == tbtn_notify_handler(dev[d], st.event, st.hinf.status, st.hinf.raw)
              queried == \E i \in 1..Len(r.trace) : r.trace[i] = "HINF"
              answered == queried /\ st.hinf.status = "AE_OK"
              failed == r.outcome \in {"hinf_failed", "unrecognized", "report_failed"}
          IN  /\ dev' = [dev EXCEPT ![d] = r.s]
              /\ obs' = [NoObs EXCEPT
                            !.op = "notify", !.d = d, !.event = st.event,
                            !.hinf = IF ~queried THEN "none"
                                     ELSE IF answered THEN "ok" ELSE "fail",
                            !.raw = IF answered THEN st.hinf.raw ELSE NoRaw,
                            !.trace = r.trace, !.emitted = r.emitted,
                            !.outcome = r.outcome]
              /\ hist' = [hist EXCEPT ![d] = IF failed THEN "failed"
                                             ELSE IF @ = "none" THEN "ok" ELSE @]
    /\ UNCHANGED module

Notify(d) == Deliver(d, Stimuli) /\ UNCHANGED prev

\* the ACPI bus unbinds device d
Remove(d) ==
    /\ dev[d].attached
    /\ dev' = [dev EXCEPT ![d] = Detach(tbtn_remove(dev[d]))]
    /\ obs' = [NoObs EXCEPT !.op = "remove", !.d = d]
    /\ UNCHANGED <<module, hist, prev>>

\* tbtn_exit: acpi_bus_unregister_driver unbinds every bound device
ModuleExit ==
    /\ module = "loaded"
    /\ module' = "unloaded"
    /\ dev' = [d \in Devices |-> IF dev[d].attached
                                 THEN Detach(tbtn_remove(dev[d])) ELSE dev[d]]
    /\ obs' = [NoObs EXCEPT !.op = "exit"]
    /\ UNCHANGED <<hist, prev>>

Next ==
    \/ ModuleInit
    \/ ModuleExit
    \/ \E d \in Devices : Add(d)
    \/ \E d \in Devices : Notify(d)
    \/ \E d \in Devices : Remove(d)

Spec == Init /\ [][Next]_vars

-----------------------------------------------------------------------------
(* Pairs of queries: the decoding as a function of the raw status value.   *)
(* One bound device receives 0x80 notifications whose HINF query succeeds, *)
(* and prev keeps the query before the last one.                           *)

PairDevice == "MAT002A"

InitPair ==
    /\ module = "loaded"
    /\ dev = [d \in Devices |-> IF d = PairDevice THEN Bound(d) ELSE Unbound]
    /\ hist = [d \in Devices |-> "none"]
    /\ obs = NoObs
    /\ prev = NoPrev

Query(d) == Deliver(d, QueryStimuli) /\ Shift

NextPair == \E d \in Devices : Query(d)

SpecPair == InitPair /\ [][NextPair]_vars

-----------------------------------------------------------------------------
(* Claims *)

\* bits 0..6 of a raw status value
LowBits(raw) == raw.lo % 128

\* the decoding table of the specification
TableKey(k) == IF k \in {56, 57} THEN "KEY_PROG1" ELSE "KEY_PROG2"

TableValue(k) == IF k \in {57, 67} THEN 1 ELSE 0

IsKeyReport(e) == e.ev = "KEY"

KeyReports(emitted) == SelectSeq(emitted, IsKeyReport)

\* the reports start with the table's (key, direction) for key value k and
\* name no other key
ReportsTableEntry(emitted, k) ==
    /\ emitted # <<>>
    /\ emitted[1] = KeyEvent(TableKey(k), TableValue(k))
    /\ \A i \in 1..Len(emitted) : emitted[i].ev = "KEY" => emitted[i].key = TableKey(k)

IsRecognized(o) == IsQuery(o) /\ LowBits(o.raw) \in DecodedValues

\* C1: a 0x80 notification whose HINF value has low 7 bits 57, 56, 67 or 66
\* reports (PROG1, pressed), (PROG1, released), (PROG2, pressed), (PROG2,
\* released) on the device, the releases through the keymap entries of the
\* presses, and reports no other key.
C1_DecodingTable ==
    IsRecognized(obs) =>
        /\ obs.outcome = "reported"
        /\ ReportsTableEntry(obs.emitted, LowBits(obs.raw))

C1_Witness ==
    /\ IsRecognized(obs)
    /\ LowBits(obs.raw) = 56
    /\ obs.raw.lo >= 128
    /\ KeyReports(obs.emitted) # <<>>

\* C2: a HINF value whose low 7 bits are none of 56, 57, 66, 67 leads to no
\* key report and no sync, and the device context is left as it was.
C2_UnrecognizedIsDropped ==
    [][ (IsQuery(obs') /\ LowBits(obs'.raw) \notin DecodedValues)
            => (obs'.emitted = <<>> /\ dev' = dev) ]_vars

C2_Witness ==
    /\ IsQuery(obs)
    /\ obs.raw.lo = 127
    /\ obs.outcome = "unrecognized"

C4_FailuresAreNotFatal ==
    \A d \in Devices :
        (dev[d].attached /\ hist[d] = "failed") =>
            /\ dev[d].driver_data = "tbtn"
            /\ dev[d].tbtn.input_dev = "input_dev"
            /\ dev[d].input.registered
            /\ (obs.op = "notify" /\ obs.d = d /\ obs.event = TBTN_NOTIFY)
                   => obs.hinf # "none"
            /\ (IsRecognized(obs) /\ obs.d = d)
                   => /\ obs.outcome = "reported"
                      /\ ReportsTableEntry(obs.emitted, LowBits(obs.raw))

\* hist is "failed" and the last notification succeeded, so the failure was
\* an earlier one
C4_Witness ==
    \E d \in Devices :
        /\ dev[d].attached
        /\ hist[d] = "failed"
        /\ IsRecognized(obs)
        /\ obs.d = d
        /\ obs.outcome = "reported"

\* C5: when the HINF query fails the handler makes that one query and
\* nothing else: no report, no decoding, no retry, context unchanged.
C5_QueryFailureIsDropped ==
    [][ (obs'.op = "notify" /\ obs'.hinf = "fail")
            => (obs'.trace = <<"HINF">> /\ obs'.emitted = <<>> /\ dev' = dev) ]_vars

C5_Witness ==
    /\ obs.op = "notify"
    /\ obs.event = TBTN_NOTIFY
    /\ obs.hinf = "fail"

\* C6: a bind in which a step fails returns non-zero and leaves no input
\* device registered, at return and afterwards; registration is attempted
\* only as the fourth and last step, after the three before it succeeded.
C6_FailedBindRegistersNothing ==
    obs.op = "add" =>
        /\ obs.fail # "none" =>
              /\ obs.ret # 0
              /\ ~obs.regAtReturn
              /\ ~dev[obs.d].input.registered
              /\ ~dev[obs.d].attached
        /\ \A i \in 1..Len(obs.trace) :
              obs.trace[i] = "register" =>
                  /\ i = Len(obs.trace)
                  /\ SubSeq(obs.trace, 1, i - 1)
                         = <<"kzalloc", "input_alloc", "keymap_setup">>

C6_Witness ==
    /\ obs.op = "add"
    /\ obs.fail = "register"
    /\ obs.ret # 0

\* C7: after unbind (remove, or module unload) the device is in the unbound
\* state: nothing registered, nothing allocated, no managed resource left.
C7_UnbindReleasesEverything ==
    /\ obs.op = "remove" => dev[obs.d] = Unbound
    /\ obs.op = "exit" => \A d \in Devices : dev[d] = Unbound

C7_Witness ==
    /\ obs.op = "remove"
    /\ hist[obs.d] # "none"
    /\ ~dev[obs.d].attached

\* C8: a notification code other than 0x80 leads to no HINF query and no
\* report, and leaves the device context as it was.
C8_OtherCodesAreIgnored ==
    [][ (obs'.op = "notify" /\ obs'.event # TBTN_NOTIFY)
            => (obs'.trace = <<>> /\ obs'.emitted = <<>> /\ dev' = dev) ]_vars

C8_Witness ==
    /\ obs.op = "notify"
    /\ obs.event = 129
    /\ obs.outcome = "unknown_event"

\* C9: a recognized value is reported as exactly one key report followed by
\* one sync, and after a press the key is pressed on the virtual device.
C9_OneReportAndKeyHeld ==
    (IsRecognized(obs) /\ obs.outcome = "reported") =>
        /\ obs.emitted = << KeyEvent(TableKey(LowBits(obs.raw)),
                                     TableValue(LowBits(obs.raw))), SynEvent >>
        /\ TableValue(LowBits(obs.raw)) = 1
               => TableKey(LowBits(obs.raw)) \in dev[obs.d].input.keys

KeymapCodes(keymap) ==
    {i \in 1..Len(keymap) : keymap[i].type # "KE_END"}

\* C10: the codes of the keymap are pairwise distinct, every code the
\* decoder can report has an entry in the keymap installed on a bound
\* device, and no report is rejected.
C10_EveryReportedCodeIsMapped ==
    /\ \A i, j \in KeymapCodes(tbtn_keymap) :
          tbtn_keymap[i].code = tbtn_keymap[j].code => i = j
    /\ \A d \in Devices :
          dev[d].attached =>
              \A k \in 0..127, t \in {0, 128} :
                  LET dec == DecodeKeyValue(k, t)
                  IN  dec.handled =>
                          sparse_keymap_entry_from_scancode(dev[d].input,
                              dec.report_key_value) # <<>>
    /\ obs.op = "notify" => obs.outcome # "report_failed"

C10_Witness ==
    /\ IsRecognized(obs)
    /\ LowBits(obs.raw) = 66
    /\ obs.outcome = "reported"

=============================================================================
